---- MODULE Spec2Model ----
(***************************************************************************)
(* A model of the generic Tag container (src/src/types/tag.rs) and of the  *)
(* Opus adapter with its AnyTag conversions                                *)
(* (src/src/components/opus_tag.rs).                                       *)
(*                                                                         *)
(* Two objects are modelled, each under its own specification:            *)
(*   SpecTag   a Tag (tag_type, items, pictures) driven by its operations  *)
(*   SpecOpus  an OpusTag (its user_comments map) driven by its operations *)
(* An Option<T> is a sequence of length 0 (None) or 1 (Some(x)).           *)
(* A Rust String is a sequence of one-character strings, so that parsing   *)
(* and formatting are computed and not assumed.                            *)
(***************************************************************************)
EXTENDS Integers, Sequences, FiniteSets

VARIABLES
    tag_type,   \* Tag.tag_type
    pictures,   \* Tag.pictures : Vec<Picture>
    items,      \* Tag.items : Vec<TagItem>
    inserted,   \* history: the ItemKeys that were passed to insert_item
    comments,   \* OpusTag.0.comments.user_comments : HashMap<String, String>
    set_log,    \* history: for an adapter made by default(), the value last
                \* passed to each canonical setter and not removed since
    last        \* history: the last operation, its argument, what it returned
                \* and its trace: the stored item insert_item found under the
                \* key, the picture remove_picture_type took out, how many
                \* pictures remove_picture dropped, the setter calls
                \* From<AnyTag> made, the entries a remover found

vars == <<tag_type, pictures, items, inserted, comments, set_log, last>>

tagVars == <<tag_type, pictures, items, inserted>>
opusVars == <<comments, set_log>>

None == <<>>
Some(x) == <<x>>
IsSome(o) == Len(o) = 1
Unwrap(o) == o[1]

\* u16::MAX + 1: the modulus of an `as u16` cast.
U16 == 65536

(***************************************************************************)
(* Bounds                                                                  *)
(***************************************************************************)
MaxPictures == 2

(***************************************************************************)
(* types/tag.rs : TagType, ItemKey, ItemValue, TagItem, Picture            *)
(***************************************************************************)
TagTypes == {"Vorbis", "RiffInfo", "AiffText"}

ItemKeys == {"TrackTitle", "TrackNumber", "DiscTotal"}

\* ItemKey::map_key(tag_type): the native key of a canonical key, or None.
MapKey(item_key, tt) ==
    CASE tt = "Vorbis" ->
            (CASE item_key = "TrackTitle"  -> Some("TITLE")
               [] item_key = "TrackNumber" -> Some("TRACKNUMBER")
               [] item_key = "DiscTotal"   -> Some("DISCTOTAL")
               [] OTHER -> None)
      [] tt = "RiffInfo" ->
            (CASE item_key = "TrackTitle"  -> Some("INAM")
               [] item_key = "TrackNumber" -> Some("ITRK")
               [] OTHER -> None)
      [] tt = "AiffText" ->
            (CASE item_key = "TrackTitle"  -> Some("NAME")
               [] OTHER -> None)
      [] OTHER -> None

ItemValues ==
    { [kind |-> "Text", data |-> "3"],
      [kind |-> "Text", data |-> "4"],
      [kind |-> "Binary", data |-> "3"] }

\* TagItem::new: no validity check.
TagItemNew(item_key, item_value) ==
    [item_key |-> item_key, item_value |-> item_value]

\* TagItem::new_checked
TagItemNewChecked(tt, item_key, item_value) ==
    IF IsSome(MapKey(item_key, tt))
    THEN Some([item_key |-> item_key, item_value |-> item_value])
    ELSE None

ReMapNoCheck(item, tt) == Some(item)

\* TagItem::re_map
re_map(item, tt) ==
    IF IsSome(MapKey(item.item_key, tt)) THEN Some(item) ELSE None

PictureTypes == {"CoverFront", "CoverBack"}

Pictures ==
    { [pic_type |-> "CoverFront", mime_type |-> "Png", data |-> "d1"],
      [pic_type |-> "CoverFront", mime_type |-> "Png", data |-> "d2"],
      [pic_type |-> "CoverBack", mime_type |-> "Png", data |-> "d1"] }

(***************************************************************************)
(* types/tag.rs : impl Tag                                                 *)
(***************************************************************************)
\* Iterator::position / find over the items: the first index whose key
\* matches, 0 when there is none.
FindItem(its, item_key) ==
    IF \E i \in 1..Len(its) : its[i].item_key = item_key
    THEN CHOOSE i \in 1..Len(its) :
            /\ its[i].item_key = item_key
            /\ \A j \in 1..(i - 1) : its[j].item_key # item_key
    ELSE 0

GetItemRefMismatch(its, item_key) ==
    IF \E i \in 1..Len(its) : its[i].item_key # item_key
    THEN Some(its[CHOOSE i \in 1..Len(its) : its[i].item_key # item_key])
    ELSE None

\* Tag::get_item_ref
get_item_ref(its, item_key) ==
    IF FindItem(its, item_key) = 0 THEN None
    ELSE Some(its[FindItem(its, item_key)])

\* Tag::item_count (the `as u32` cast is the identity below 2^32 items)
item_count(its) == Len(its)

\* Tag::picture_count (the `as u32` cast is the identity below 2^32 pictures)
picture_count(pics) == Len(pics)

\* The match inside insert_item, once the item is re-mapped.
InsertMoveToEnd(its, item) ==
    Append(SelectSeq(its, LAMBDA i : i.item_key # item.item_key), item)

InsertAlwaysPush(its, item) == Append(its, item)

InsertKeepOld(its, item) ==
    IF FindItem(its, item.item_key) = 0 THEN Append(its, item) ELSE its

StoreItem(its, item) ==
    IF FindItem(its, item.item_key) = 0
    THEN Append(its, item)
    ELSE [its EXCEPT ![FindItem(its, item.item_key)] = item]

InsertItemPushOnFail(its, tt, item) ==
    IF IsSome(re_map(item, tt))
    THEN [items |-> StoreItem(its, Unwrap(re_map(item, tt))), ret |-> TRUE]
    ELSE [items |-> Append(its, item), ret |-> FALSE]

\* Tag::insert_item: the new item sequence and the returned bool.
insert_item(its, tt, item) ==
    IF IsSome(re_map(item, tt))
    THEN [items |-> StoreItem(its, Unwrap(re_map(item, tt))), ret |-> TRUE]
    ELSE [items |-> its, ret |-> FALSE]

\* Vec::remove(pos), 1-based.
RemoveAt(s, pos) == SubSeq(s, 1, pos - 1) \o SubSeq(s, pos + 1, Len(s))

\* Iterator::position over the pictures, 0 when there is none.
PositionOfType(pics, picture_type) ==
    IF \E i \in 1..Len(pics) : pics[i].pic_type = picture_type
    THEN CHOOSE i \in 1..Len(pics) :
            /\ pics[i].pic_type = picture_type
            /\ \A j \in 1..(i - 1) : pics[j].pic_type # picture_type
    ELSE 0

RemoveAllOfType(pics, picture_type) ==
    SelectSeq(pics, LAMBDA p : p.pic_type # picture_type)

\* Tag::remove_picture_type
remove_picture_type(pics, picture_type) ==
    IF PositionOfType(pics, picture_type) = 0 THEN pics
    ELSE RemoveAt(pics, PositionOfType(pics, picture_type))

RemoveFirstEqual(pics, picture) ==
    IF \E i \in 1..Len(pics) : pics[i] = picture
    THEN RemoveAt(pics, CHOOSE i \in 1..Len(pics) :
                          /\ pics[i] = picture
                          /\ \A j \in 1..(i - 1) : pics[j] # picture)
    ELSE pics

RECURSIVE Retain(_, _)
Retain(pics, picture) ==
    IF pics = <<>> THEN <<>>
    ELSE IF Head(pics) # picture
         THEN <<Head(pics)>> \o Retain(Tail(pics), picture)
         ELSE Retain(Tail(pics), picture)

\* Tag::remove_picture
remove_picture(pics, picture) == Retain(pics, picture)

\* Tag::push_picture
push_picture(pics, picture) == Append(pics, picture)

(***************************************************************************)
(* The Tag's operations as actions                                         *)
(***************************************************************************)
Called(op, arg, ret) == [op |-> op, arg |-> arg, ret |-> ret, trace |-> None]

NoOp == Called("new", None, None)

InitTag ==
    /\ tag_type \in TagTypes
    /\ pictures = <<>>
    /\ items = <<>>
    /\ inserted = {}
    /\ comments = None
    /\ set_log = None
    /\ last = NoOp

InsertItem ==
    \E k \in ItemKeys, v \in ItemValues :
        LET item == TagItemNew(k, v)
            r == insert_item(items, tag_type, item)
        IN  /\ items' = r.items
            /\ inserted' = inserted \cup {k}
            /\ last' = [op |-> "insert_item", arg |-> item, ret |-> r.ret,
                        trace |-> get_item_ref(items, k)]
            /\ UNCHANGED <<tag_type, pictures, opusVars>>

GetItemRef ==
    \E k \in ItemKeys :
        /\ last' = Called("get_item_ref", k, get_item_ref(items, k))
        /\ UNCHANGED <<tagVars, opusVars>>

ItemCount ==
    /\ last' = Called("item_count", None, item_count(items))
    /\ UNCHANGED <<tagVars, opusVars>>

PictureCount ==
    /\ last' = Called("picture_count", None, picture_count(pictures))
    /\ UNCHANGED <<tagVars, opusVars>>

PushPicture ==
    \E p \in Pictures :
        /\ Len(pictures) < MaxPictures
        /\ pictures' = push_picture(pictures, p)
        /\ last' = Called("push_picture", p, None)
        /\ UNCHANGED <<tag_type, items, inserted, opusVars>>

RemovePictureType ==
    \E t \in PictureTypes :
        /\ pictures' = remove_picture_type(pictures, t)
        /\ last' = [op |-> "remove_picture_type", arg |-> t, ret |-> None,
                    trace |-> IF PositionOfType(pictures, t) = 0 THEN None
                              ELSE Some(pictures[PositionOfType(pictures, t)])]
        /\ UNCHANGED <<tag_type, items, inserted, opusVars>>

RemovePicture ==
    \E p \in Pictures :
        /\ pictures' = remove_picture(pictures, p)
        /\ last' = [op |-> "remove_picture", arg |-> p, ret |-> None,
                    trace |-> Some(Len(pictures) - Len(remove_picture(pictures, p)))]
        /\ UNCHANGED <<tag_type, items, inserted, opusVars>>

NextTag ==
    \/ InsertItem
    \/ GetItemRef
    \/ ItemCount
    \/ PictureCount
    \/ PushPicture
    \/ RemovePictureType
    \/ RemovePicture

SpecTag == InitTag /\ [][NextTag]_vars

(***************************************************************************)
(* Rust strings and numbers                                                *)
(***************************************************************************)
DigitChars == <<"0", "1", "2", "3", "4", "5", "6", "7", "8", "9">>

IsDigit(ch) == \E d \in 1..10 : DigitChars[d] = ch

\* char::to_digit(10)
DigitVal(ch) == (CHOOSE d \in 1..10 : DigitChars[d] = ch) - 1

\* u16::to_string: decimal, no sign, no leading zeros.
RECURSIVE u16_to_string(_)
u16_to_string(n) ==
    IF n < 10 THEN <<DigitChars[n + 1]>>
    ELSE u16_to_string(n \div 10) \o <<DigitChars[(n % 10) + 1]>>

I32Max == 2147483647
U16Max == 65535

\* The digit loop of from_str_radix for a non-negative result: checked_mul(10)
\* then checked_add(digit); None on a non-digit or on overflow.
RECURSIVE ParsePos(_, _, _)
ParsePos(s, acc, max) ==
    IF s = <<>> THEN Some(acc)
    ELSE IF ~IsDigit(Head(s)) THEN None
    ELSE IF acc > max \div 10 \/ DigitVal(Head(s)) > max - acc * 10 THEN None
    ELSE ParsePos(Tail(s), acc * 10 + DigitVal(Head(s)), max)

\* The digit loop for a negative i32: checked_mul(10) then checked_sub(digit).
RECURSIVE ParseNeg(_, _)
ParseNeg(s, acc) ==
    IF s = <<>> THEN Some(acc)
    ELSE IF ~IsDigit(Head(s)) THEN None
    ELSE IF acc < -(I32Max \div 10) \/ DigitVal(Head(s)) - 1 > I32Max + acc * 10
         THEN None
    ELSE ParseNeg(Tail(s), acc * 10 - DigitVal(Head(s)))

\* str::parse::<i32>: Ok(n) is Some(n), Err is None.
ParseI32(s) ==
    IF s = <<>> THEN None
    ELSE IF Head(s) = "+" THEN
        (IF Tail(s) = <<>> THEN None ELSE ParsePos(Tail(s), 0, I32Max))
    ELSE IF Head(s) = "-" THEN
        (IF Tail(s) = <<>> THEN None ELSE ParseNeg(Tail(s), 0))
    ELSE ParsePos(s, 0, I32Max)

\* str::parse::<u16>: a leading '-' is an invalid digit.
ParseU16(s) ==
    IF s = <<>> THEN None
    ELSE IF Head(s) = "+" THEN
        (IF Tail(s) = <<>> THEN None ELSE ParsePos(Tail(s), 0, U16Max))
    ELSE ParsePos(s, 0, U16Max)

\* `n as u16` of an i32: the low 16 bits.
AsU16(n) == n % U16

\* `n as i32` of a u16.
AsI32(n) == n

\* s.chars().take(n).collect::<String>()
Take(s, n) == SubSeq(s, 1, IF Len(s) < n THEN Len(s) ELSE n)

(***************************************************************************)
(* components/opus_tag.rs : the comment store                              *)
(***************************************************************************)
\* The keys of user_comments the model ranges over: the ten the adapter
\* names, and one it does not.
OpusKeys ==
    {"TITLE", "ARTIST", "DATE", "YEAR", "ALBUM", "ALBUMARTIST", "TRACKNUMBER",
     "TOTALTRACKS", "DISCNUMBER", "TOTALDISCS", "ENCODER"}

\* OpusInnerTag::default(): user_comments is the empty map. The map is a
\* function from key to Option<String>; None is "no entry".
OpusTagDefault == [k \in OpusKeys |-> None]

GetFirstKeepEmpty(c, key) == c[key]

\* OpusTag::get_first
get_first(c, key) ==
    IF IsSome(c[key])
    THEN (IF Unwrap(c[key]) # <<>> THEN Some(Unwrap(c[key])) ELSE None)
    ELSE None

\* OpusTag::set_first: `Some(mut v) => v = &mut val.to_string()` rebinds the
\* local v to a temporary String; nothing is written through the reference
\* get_mut returned, and the None arm does nothing.
set_first(c, key, val) ==
    IF IsSome(c[key]) THEN c ELSE c

\* OpusTag::remove: retain(|k, _| k != key)
remove(c, key) == [k \in DOMAIN c |-> IF k # key THEN c[k] ELSE None]

(***************************************************************************)
(* components/opus_tag.rs : impl AudioTagEdit for OpusTag                  *)
(***************************************************************************)
title(c) == get_first(c, "TITLE")
set_title(c, v) == set_first(c, "TITLE", v)
remove_title(c) == remove(c, "TITLE")

artist(c) == get_first(c, "ARTIST")
set_artist(c, v) == set_first(c, "ARTIST", v)
remove_artist(c) == remove(c, "ARTIST")

year(c) ==
    IF IsSome(get_first(c, "DATE"))
       /\ IsSome(ParseI32(Take(Unwrap(get_first(c, "DATE")), 4)))
    THEN Some(AsU16(Unwrap(ParseI32(Take(Unwrap(get_first(c, "DATE")), 4)))))
    ELSE IF IsSome(get_first(c, "YEAR"))
            /\ IsSome(ParseI32(Unwrap(get_first(c, "YEAR"))))
    THEN Some(AsU16(Unwrap(ParseI32(Unwrap(get_first(c, "YEAR"))))))
    ELSE None

RemoveYearOnly(c) == remove(c, "YEAR")

set_year(c, y) == set_first(set_first(c, "DATE", u16_to_string(y)), "YEAR", u16_to_string(y))
remove_year(c) == remove(remove(c, "YEAR"), "DATE")

album_title(c) == get_first(c, "ALBUM")
set_album_title(c, v) == set_first(c, "ALBUM", v)
remove_album_title(c) == remove(c, "ALBUM")

album_artist(c) == get_first(c, "ALBUMARTIST")
set_album_artist(c, v) == set_first(c, "ALBUMARTIST", v)
remove_album_artist(c) == remove(c, "ALBUMARTIST")

\* album_cover / set_album_cover / remove_album_cover: bodies are comments.
album_cover(c) == None
set_album_cover(c, cover) == c
remove_album_cover(c) == c

\* track_number, total_tracks, disc_number, total_discs: the same getter
\* over four keys.
GetU16(c, key) ==
    IF IsSome(get_first(c, key)) /\ IsSome(ParseU16(Unwrap(get_first(c, key))))
    THEN ParseU16(Unwrap(get_first(c, key)))
    ELSE None

track_number(c) == GetU16(c, "TRACKNUMBER")
set_track_number(c, v) == set_first(c, "TRACKNUMBER", u16_to_string(v))
remove_track_number(c) == remove(c, "TRACKNUMBER")

total_tracks(c) == GetU16(c, "TOTALTRACKS")
set_total_tracks(c, v) == set_first(c, "TOTALTRACKS", u16_to_string(v))
remove_total_tracks(c) == remove(c, "TOTALTRACKS")

disc_number(c) == GetU16(c, "DISCNUMBER")
set_disc_number(c, v) == set_first(c, "DISCNUMBER", u16_to_string(v))
remove_disc_number(c) == remove(c, "DISCNUMBER")

total_discs(c) == GetU16(c, "TOTALDISCS")
set_total_discs(c, v) == set_first(c, "TOTALDISCS", u16_to_string(v))
remove_total_discs(c) == remove(c, "TOTALDISCS")

\* AudioTagEdit::artists / album_artists (provided methods of the trait):
\* the one stored string as a one-element list.
artists(c) == IF IsSome(artist(c)) THEN Some(<<Unwrap(artist(c))>>) ELSE None
album_artists(c) ==
    IF IsSome(album_artist(c)) THEN Some(<<Unwrap(album_artist(c))>>) ELSE None


(***************************************************************************)
(* AnyTag, the pivot                                                       *)
(***************************************************************************)
\* AnyTag::default(): every field absent.
AnyTagDefault ==
    [title |-> None, artists |-> None, year |-> None, album |-> None,
     album_artists |-> None, cover |-> None, track_number |-> None,
     total_tracks |-> None, disc_number |-> None, total_discs |-> None]

\* The separator artists_as_string joins a list with.
SepArtist == <<";">>

\* [&str]::join(sep)
RECURSIVE Join(_, _)
Join(list, sep) ==
    IF list = <<>> THEN <<>>
    ELSE IF Len(list) = 1 THEN Head(list)
    ELSE Head(list) \o sep \o Join(Tail(list), sep)

\* AnyTag::artists_as_string / album_artists_as_string
artists_as_string(inp) ==
    IF IsSome(inp.artists) THEN Some(Join(Unwrap(inp.artists), SepArtist)) ELSE None
album_artists_as_string(inp) ==
    IF IsSome(inp.album_artists)
    THEN Some(Join(Unwrap(inp.album_artists), SepArtist))
    ELSE None

\* impl From<&OpusTag> for AnyTag
AnyTagFromOpus(c) ==
    [title |-> title(c),
     artists |-> artists(c),
     year |-> IF IsSome(year(c)) THEN Some(AsI32(Unwrap(year(c)))) ELSE None,
     album |-> album_title(c),
     album_artists |-> album_artists(c),
     cover |-> album_cover(c),
     track_number |-> track_number(c),
     total_tracks |-> total_tracks(c),
     disc_number |-> disc_number(c),
     total_discs |-> total_discs(c)]

\* Option::map(|v| t.setter(v)): one call when the value is present.
OptCall(o, setter) == IF IsSome(o) THEN << <<setter, Unwrap(o)>> >> ELSE <<>>

\* impl From<AnyTag> for OpusTag: the setter calls made on the fresh
\* adapter, in the order of the source.
FromAnyTagCalls(inp) ==
       OptCall(inp.title, "set_title")
    \o OptCall(artists_as_string(inp), "set_artist")
    \o OptCall(IF IsSome(inp.year) THEN Some(AsU16(Unwrap(inp.year))) ELSE None,
               "set_year")
    \o OptCall(inp.album, "set_album_title")
    \o OptCall(album_artists_as_string(inp), "set_artist")
    \o OptCall(inp.track_number, "set_track_number")
    \o OptCall(inp.total_tracks, "set_total_tracks")
    \o OptCall(inp.disc_number, "set_disc_number")
    \o OptCall(inp.total_discs, "set_total_discs")

\* One setter call on an adapter.
ApplyCall(c, call) ==
    CASE call[1] = "set_title"        -> set_title(c, call[2])
      [] call[1] = "set_artist"       -> set_artist(c, call[2])
      [] call[1] = "set_year"         -> set_year(c, call[2])
      [] call[1] = "set_album_title"  -> set_album_title(c, call[2])
      [] call[1] = "set_album_artist" -> set_album_artist(c, call[2])
      [] call[1] = "set_track_number" -> set_track_number(c, call[2])
      [] call[1] = "set_total_tracks" -> set_total_tracks(c, call[2])
      [] call[1] = "set_disc_number"  -> set_disc_number(c, call[2])
      [] call[1] = "set_total_discs"  -> set_total_discs(c, call[2])

RECURSIVE ApplyCalls(_, _)
ApplyCalls(c, calls) ==
    IF calls = <<>> THEN c
    ELSE ApplyCalls(ApplyCall(c, Head(calls)), Tail(calls))

\* impl From<AnyTag> for OpusTag: the adapter returned.
OpusTagFromAnyTag(inp) == ApplyCalls(OpusTagDefault, FromAnyTagCalls(inp))

(***************************************************************************)
(* Inputs of the Opus adapter's operations                                 *)
(***************************************************************************)
\* How many entries a comment header read from storage holds at most.
MaxEntries == 2

Song == <<"S", "o", "n", "g">>
Tune == <<"T", "u", "n", "e">>

Titles == {Song, Tune}
ArtistNames == {<<"A">>}
AlbumTitles == {<<"L", "P">>}
AlbumArtistNames == {<<"B">>}
Years == {1999, 2001}
TrackNumbers == {3}
TrackTotals == {12}
DiscNumbers == {1}
DiscTotals == {2}

\* The strings a stored entry may hold, per key.
StoredValues(key) ==
    CASE key = "TITLE"       -> {Song, <<>>}
      [] key = "ARTIST"      -> {<<"A">>}
      [] key = "DATE"        -> {<<"2", "0", "0", "1">>,
                                 <<"1", "9", "9", "9", "-", "0", "5", "-", "0", "1">>,
                                 <<"a", "b", "c", "d">>,
                                 <<"-", "5", "0", "0">>}
      [] key = "YEAR"        -> {<<"2", "0", "0", "1">>,
                                 <<"7", "0", "0", "0", "0">>,
                                 <<"x">>}
      [] key = "ALBUM"       -> {<<"L", "P">>}
      [] key = "ALBUMARTIST" -> {<<"B">>}
      [] key = "TRACKNUMBER" -> {<<"3">>, <<"x">>, <<"+", "3">>, <<>>,
                                 <<"7", "0", "0", "0", "0">>}
      [] key = "TOTALTRACKS" -> {<<"1", "2">>}
      [] key = "DISCNUMBER"  -> {<<"1">>}
      [] key = "TOTALDISCS"  -> {<<"2">>}
      [] key = "ENCODER"     -> {<<"e">>}

\* The comment maps with at most n entries.
RECURSIVE StoresUpTo(_)
StoresUpTo(n) ==
    IF n = 0 THEN {OpusTagDefault}
    ELSE StoresUpTo(n - 1) \cup
         UNION { UNION { {[c EXCEPT ![k] = Some(v)] : v \in StoredValues(k)} :
                         k \in {x \in OpusKeys : c[x] = None} } :
                 c \in StoresUpTo(n - 1) }

\* The comment maps an adapter can wrap after reading a file.
ReadStores == StoresUpTo(MaxEntries)

CoverPicture == [pic_type |-> "CoverFront", mime_type |-> "Png", data |-> "d1"]

\* The AnyTag values a caller hands to From<AnyTag>.
AnyTagInputs ==
    { AnyTagDefault,
      [AnyTagDefault EXCEPT !.title = Some(Song)],
      [AnyTagDefault EXCEPT !.album_artists = Some(<< <<"B">> >>)],
      [AnyTagDefault EXCEPT !.artists = Some(<< <<"A">>, <<"C">> >>),
                            !.album_artists = Some(<< <<"B">> >>)],
      [AnyTagDefault EXCEPT !.year = Some(1999), !.cover = Some(CoverPicture)],
      [AnyTagDefault EXCEPT !.year = Some(-5)],
      [AnyTagDefault EXCEPT !.year = Some(70000)],
      [title |-> Some(Song), artists |-> Some(<< <<"A">> >>), year |-> Some(2001),
       album |-> Some(<<"L", "P">>), album_artists |-> Some(<< <<"B">> >>),
       cover |-> None, track_number |-> Some(3), total_tracks |-> Some(12),
       disc_number |-> Some(1), total_discs |-> Some(2)] }

\* The strings handed to set_first directly.
RawValues == {<<"x">>, <<"2", "0", "0", "1">>}

(***************************************************************************)
(* The Opus adapter's operations as actions                                *)
(***************************************************************************)
EmptyLog ==
    [title |-> None, artist |-> None, year |-> None, album_title |-> None,
     album_artist |-> None, track_number |-> None, total_tracks |-> None,
     disc_number |-> None, total_discs |-> None]

\* set_log after the setter (v = Some(x)) or the remover (v = None) of field f.
Logged(f, v) ==
    IF IsSome(set_log) THEN Some([Unwrap(set_log) EXCEPT ![f] = v]) ELSE None

InitOpus ==
    /\ tag_type = "Opus"
    /\ pictures = <<>>
    /\ items = <<>>
    /\ inserted = {}
    /\ \/ comments = OpusTagDefault /\ set_log = Some(EmptyLog)
       \/ comments \in ReadStores /\ set_log = None
    /\ last = NoOp

SetTitle ==
    \E v \in Titles :
        /\ comments' = set_title(comments, v)
        /\ set_log' = Logged("title", Some(v))
        /\ last' = Called("set_title", v, None)
        /\ UNCHANGED tagVars

RemoveTitle ==
    /\ comments' = remove_title(comments)
    /\ set_log' = Logged("title", None)
    /\ last' = [op |-> "remove_title", arg |-> None, ret |-> None,
                trace |-> comments["TITLE"]]
    /\ UNCHANGED tagVars

SetArtist ==
    \E v \in ArtistNames :
        /\ comments' = set_artist(comments, v)
        /\ set_log' = Logged("artist", Some(v))
        /\ last' = Called("set_artist", v, None)
        /\ UNCHANGED tagVars

RemoveArtist ==
    /\ comments' = remove_artist(comments)
    /\ set_log' = Logged("artist", None)
    /\ last' = [op |-> "remove_artist", arg |-> None, ret |-> None,
                trace |-> comments["ARTIST"]]
    /\ UNCHANGED tagVars

SetYear ==
    \E y \in Years :
        /\ comments' = set_year(comments, y)
        /\ set_log' = Logged("year", Some(y))
        /\ last' = Called("set_year", y, None)
        /\ UNCHANGED tagVars

RemoveYear ==
    /\ comments' = remove_year(comments)
    /\ set_log' = Logged("year", None)
    /\ last' = [op |-> "remove_year", arg |-> None, ret |-> None,
                trace |-> <<comments["YEAR"], comments["DATE"]>>]
    /\ UNCHANGED tagVars

SetAlbumTitle ==
    \E v \in AlbumTitles :
        /\ comments' = set_album_title(comments, v)
        /\ set_log' = Logged("album_title", Some(v))
        /\ last' = Called("set_album_title", v, None)
        /\ UNCHANGED tagVars

RemoveAlbumTitle ==
    /\ comments' = remove_album_title(comments)
    /\ set_log' = Logged("album_title", None)
    /\ last' = [op |-> "remove_album_title", arg |-> None, ret |-> None,
                trace |-> comments["ALBUM"]]
    /\ UNCHANGED tagVars

SetAlbumArtist ==
    \E v \in AlbumArtistNames :
        /\ comments' = set_album_artist(comments, v)
        /\ set_log' = Logged("album_artist", Some(v))
        /\ last' = Called("set_album_artist", v, None)
        /\ UNCHANGED tagVars

RemoveAlbumArtist ==
    /\ comments' = remove_album_artist(comments)
    /\ set_log' = Logged("album_artist", None)
    /\ last' = [op |-> "remove_album_artist", arg |-> None, ret |-> None,
                trace |-> comments["ALBUMARTIST"]]
    /\ UNCHANGED tagVars

SetAlbumCover ==
    /\ comments' = set_album_cover(comments, CoverPicture)
    /\ last' = Called("set_album_cover", CoverPicture, None)
    /\ UNCHANGED <<set_log, tagVars>>

RemoveAlbumCover ==
    /\ comments' = remove_album_cover(comments)
    /\ last' = Called("remove_album_cover", None, None)
    /\ UNCHANGED <<set_log, tagVars>>

SetTrackNumber ==
    \E v \in TrackNumbers :
        /\ comments' = set_track_number(comments, v)
        /\ set_log' = Logged("track_number", Some(v))
        /\ last' = Called("set_track_number", v, None)
        /\ UNCHANGED tagVars

RemoveTrackNumber ==
    /\ comments' = remove_track_number(comments)
    /\ set_log' = Logged("track_number", None)
    /\ last' = [op |-> "remove_track_number", arg |-> None, ret |-> None,
                trace |-> comments["TRACKNUMBER"]]
    /\ UNCHANGED tagVars

SetTotalTracks ==
    \E v \in TrackTotals :
        /\ comments' = set_total_tracks(comments, v)
        /\ set_log' = Logged("total_tracks", Some(v))
        /\ last' = Called("set_total_tracks", v, None)
        /\ UNCHANGED tagVars

RemoveTotalTracks ==
    /\ comments' = remove_total_tracks(comments)
    /\ set_log' = Logged("total_tracks", None)
    /\ last' = [op |-> "remove_total_tracks", arg |-> None, ret |-> None,
                trace |-> comments["TOTALTRACKS"]]
    /\ UNCHANGED tagVars

SetDiscNumber ==
    \E v \in DiscNumbers :
        /\ comments' = set_disc_number(comments, v)
        /\ set_log' = Logged("disc_number", Some(v))
        /\ last' = Called("set_disc_number", v, None)
        /\ UNCHANGED tagVars

RemoveDiscNumber ==
    /\ comments' = remove_disc_number(comments)
    /\ set_log' = Logged("disc_number", None)
    /\ last' = [op |-> "remove_disc_number", arg |-> None, ret |-> None,
                trace |-> comments["DISCNUMBER"]]
    /\ UNCHANGED tagVars

SetTotalDiscs ==
    \E v \in DiscTotals :
        /\ comments' = set_total_discs(comments, v)
        /\ set_log' = Logged("total_discs", Some(v))
        /\ last' = Called("set_total_discs", v, None)
        /\ UNCHANGED tagVars

RemoveTotalDiscs ==
    /\ comments' = remove_total_discs(comments)
    /\ set_log' = Logged("total_discs", None)
    /\ last' = [op |-> "remove_total_discs", arg |-> None, ret |-> None,
                trace |-> comments["TOTALDISCS"]]
    /\ UNCHANGED tagVars

\* The inherent set_first and remove are public: a caller may use them on any
\* key. The log describes adapters driven through the canonical setters and
\* removers only, so it ends here.
SetFirst ==
    \E k \in OpusKeys, v \in RawValues :
        /\ comments' = set_first(comments, k, v)
        /\ set_log' = None
        /\ last' = Called("set_first", <<k, v>>, None)
        /\ UNCHANGED tagVars

Remove ==
    \E k \in OpusKeys :
        /\ comments' = remove(comments, k)
        /\ set_log' = None
        /\ last' = [op |-> "remove", arg |-> k, ret |-> None,
                    trace |-> comments[k]]
        /\ UNCHANGED tagVars

\* AnyTag::from(&adapter): the adapter is only read.
ToAnyTag ==
    /\ last' = Called("to_anytag", None, AnyTagFromOpus(comments))
    /\ UNCHANGED <<tagVars, opusVars>>

\* OpusTag::from(any): of a caller's AnyTag, or of the one just converted
\* from this adapter. The fresh adapter is the operation's result.
FromAnyTag ==
    \E inp \in AnyTagInputs \cup (IF last.op = "to_anytag" THEN {last.ret} ELSE {}) :
        /\ last' = [op |-> "from_anytag", arg |-> inp,
                    ret |-> OpusTagFromAnyTag(inp), trace |-> FromAnyTagCalls(inp)]
        /\ UNCHANGED <<tagVars, opusVars>>

\* AudioTagWrite::write_to / write_to_path: Ok(()) and nothing else.
WriteTo ==
    /\ last' = Called("write_to", None, "Ok")
    /\ UNCHANGED <<tagVars, opusVars>>

NextOpus ==
    \/ SetTitle \/ RemoveTitle
    \/ SetArtist \/ RemoveArtist
    \/ SetYear \/ RemoveYear
    \/ SetAlbumTitle \/ RemoveAlbumTitle
    \/ SetAlbumArtist \/ RemoveAlbumArtist
    \/ SetAlbumCover \/ RemoveAlbumCover
    \/ SetTrackNumber \/ RemoveTrackNumber
    \/ SetTotalTracks \/ RemoveTotalTracks
    \/ SetDiscNumber \/ RemoveDiscNumber
    \/ SetTotalDiscs \/ RemoveTotalDiscs
    \/ SetFirst \/ Remove
    \/ ToAnyTag \/ FromAnyTag
    \/ WriteTo

SpecOpus == InitOpus /\ [][NextOpus]_vars

(***************************************************************************)
(* Properties of the Tag container                                         *)
(***************************************************************************)
\* C1: after any sequence of insert_item calls on a Tag that started empty,
\* the item list holds at most one TagItem per distinct ItemKey.
KeyUniqueness ==
    \A i, j \in 1..Len(items) :
        items[i].item_key = items[j].item_key => i = j

\* C1 witness: all three keys are stored and the last insert_item hit a key
\* that was stored before it (the item sits before the end of the list).
KeyUniquenessWitness ==
    /\ last.op = "insert_item"
    /\ last.ret = TRUE
    /\ Len(items) = 3
    /\ items[2] = last.arg

\* C2: every stored TagItem has a key that map_key maps for the Tag's own
\* TagType, although insert_item is fed items built by TagItem::new.
MappingValidity ==
    \A i \in 1..Len(items) : IsSome(MapKey(items[i].item_key, tag_type))

\* C2 witness: an item with an unmapped key was offered to a Tag that holds
\* items, and was refused.
MappingValidityWitness ==
    /\ last.op = "insert_item"
    /\ ~IsSome(MapKey(last.arg.item_key, tag_type))
    /\ Len(items) >= 1

\* C3: insert_item returns false exactly when the key has no mapping for the
\* Tag's type, and then item_count, the items and the pictures are as before.
InsertFalseIffUnmapped ==
    [][ last'.op = "insert_item" =>
          /\ (last'.ret = FALSE) <=> (MapKey(last'.arg.item_key, tag_type) = None)
          /\ (last'.ret = FALSE) =>
                /\ items' = items
                /\ pictures' = pictures
                /\ item_count(items') = item_count(items)
                /\ tag_type' = tag_type ]_vars

\* C3 witness: insert_item returned false on a Tag holding items and pictures.
InsertFalseWitness ==
    /\ last.op = "insert_item"
    /\ last.ret = FALSE
    /\ Len(items) >= 1
    /\ Len(pictures) >= 1

\* C4: insert_item of a mapped (key, value) on an empty Tag, then
\* get_item_ref(key), yields an item with that key and that value; and
\* get_item_ref of a key that was never inserted yields None.
InsertThenGet ==
    /\ [][ ( /\ last'.op = "insert_item"
             /\ items = <<>>
             /\ IsSome(MapKey(last'.arg.item_key, tag_type)) ) =>
           ( /\ IsSome(get_item_ref(items', last'.arg.item_key))
             /\ Unwrap(get_item_ref(items', last'.arg.item_key)).item_key
                    = last'.arg.item_key
             /\ Unwrap(get_item_ref(items', last'.arg.item_key)).item_value
                    = last'.arg.item_value ) ]_vars
    /\ [](\A k \in ItemKeys : k \notin inserted => get_item_ref(items, k) = None)

\* C4 witness: the one stored item is the one the last insert_item was given,
\* and another key was never inserted.
InsertThenGetWitness ==
    /\ last.op = "insert_item"
    /\ last.ret = TRUE
    /\ items = <<last.arg>>
    /\ inserted = {last.arg.item_key}

\* C5: a successful insert_item of a key already present replaces the stored
\* item (item_count unchanged, get_item_ref gives the new value); of a key
\* not present it raises item_count by exactly 1.
ReplaceOnInsert ==
    [][ (last'.op = "insert_item" /\ last'.ret = TRUE) =>
          /\ get_item_ref(items', last'.arg.item_key) = Some(last'.arg)
          /\ IF IsSome(get_item_ref(items, last'.arg.item_key))
             THEN item_count(items') = item_count(items)
             ELSE item_count(items') = item_count(items) + 1 ]_vars

\* C5 witness: a Vorbis Tag whose TrackNumber, first stored as "3", is "4"
\* after the last insert_item, with the count still 1.
ReplaceOnInsertWitness ==
    /\ tag_type = "Vorbis"
    /\ last.op = "insert_item"
    /\ last.arg = TagItemNew("TrackNumber", [kind |-> "Text", data |-> "4"])
    /\ items = <<last.arg>>
    /\ last.trace = Some(TagItemNew("TrackNumber", [kind |-> "Text", data |-> "3"]))

(***************************************************************************)
(* Properties of the Opus adapter                                          *)
(***************************************************************************)
\* C6: set_year(y) populates both the DATE and the YEAR entry; when only the
\* DATE entry is removed next, year() still yields y; after remove_year,
\* year() yields None.
YearFallback ==
    /\ [][ last'.op = "set_year" =>
             /\ comments'["DATE"] = Some(u16_to_string(last'.arg))
             /\ comments'["YEAR"] = Some(u16_to_string(last'.arg)) ]_vars
    /\ [][ (last.op = "set_year" /\ last'.op = "remove" /\ last'.arg = "DATE") =>
             year(comments') = Some(last.arg) ]_vars
    /\ [][ last'.op = "remove_year" => year(comments') = None ]_vars

\* C7: converting an adapter to AnyTag and that AnyTag back to an adapter
\* yields an adapter whose getter agrees with the original's for every
\* pivot-carried field the original holds.
RoundTripThroughPivot ==
    [][ (last.op = "to_anytag" /\ last'.op = "from_anytag" /\ last'.arg = last.ret) =>
          LET a == comments
              b == last'.ret
          IN  /\ IsSome(title(a)) => title(b) = title(a)
              /\ IsSome(artist(a)) => artist(b) = artist(a)
              /\ IsSome(year(a)) => year(b) = year(a)
              /\ IsSome(album_title(a)) => album_title(b) = album_title(a)
              /\ IsSome(album_artist(a)) => album_artist(b) = album_artist(a)
              /\ IsSome(track_number(a)) => track_number(b) = track_number(a)
              /\ IsSome(total_tracks(a)) => total_tracks(b) = total_tracks(a)
              /\ IsSome(disc_number(a)) => disc_number(b) = disc_number(a)
              /\ IsSome(total_discs(a)) => total_discs(b) = total_discs(a) ]_vars

\* C8: converting an adapter that started empty gives an AnyTag holding
\* exactly the fields that were set, with the values that were set (after
\* set_title("Song") and set_year(1999): title "Song", year 1999, the rest
\* absent).
SetThenConvert ==
    (last.op = "to_anytag" /\ IsSome(set_log)) =>
        LET log == Unwrap(set_log)
            List(o) == IF IsSome(o) THEN Some(<<Unwrap(o)>>) ELSE None
        IN  last.ret =
              [title |-> log.title,
               artists |-> List(log.artist),
               year |-> log.year,
               album |-> log.album_title,
               album_artists |-> List(log.album_artist),
               cover |-> None,
               track_number |-> log.track_number,
               total_tracks |-> log.total_tracks,
               disc_number |-> log.disc_number,
               total_discs |-> log.total_discs]

\* C9: From<AnyTag> calls, for every field present in the AnyTag, the setter
\* of that same field with that field's value, and calls no setter for an
\* absent field; set_artist is never called with the album-artist list.
RoutesToOwnSetter ==
    last.op = "from_anytag" =>
        LET inp == last.arg
            calls == last.trace
            Routed(setter, o) ==
                /\ IsSome(o) <=> \E i \in 1..Len(calls) : calls[i][1] = setter
                /\ \A i \in 1..Len(calls) :
                      calls[i][1] = setter => (IsSome(o) /\ calls[i][2] = Unwrap(o))
        IN  /\ Routed("set_title", inp.title)
            /\ Routed("set_artist", artists_as_string(inp))
            /\ Routed("set_year",
                      IF IsSome(inp.year) THEN Some(AsU16(Unwrap(inp.year))) ELSE None)
            /\ Routed("set_album_title", inp.album)
            /\ Routed("set_album_artist", album_artists_as_string(inp))
            /\ Routed("set_track_number", inp.track_number)
            /\ Routed("set_total_tracks", inp.total_tracks)
            /\ Routed("set_disc_number", inp.disc_number)
            /\ Routed("set_total_discs", inp.total_discs)

\* C10: after set_F(v) with a non-empty v the getter of F returns v, whether
\* or not F had an entry before, for every canonical field F.
SettersWriteOrReplace ==
    [][ /\ last'.op = "set_title" => title(comments') = Some(last'.arg)
        /\ last'.op = "set_artist" => artist(comments') = Some(last'.arg)
        /\ last'.op = "set_year" => year(comments') = Some(last'.arg)
        /\ last'.op = "set_album_title" => album_title(comments') = Some(last'.arg)
        /\ last'.op = "set_album_artist" => album_artist(comments') = Some(last'.arg)
        /\ last'.op = "set_track_number" => track_number(comments') = Some(last'.arg)
        /\ last'.op = "set_total_tracks" => total_tracks(comments') = Some(last'.arg)
        /\ last'.op = "set_disc_number" => disc_number(comments') = Some(last'.arg)
        /\ last'.op = "set_total_discs" => total_discs(comments') = Some(last'.arg)
      ]_vars

RemoveTypeRemovesAll ==
    last.op = "remove_picture_type" =>
        \A i \in 1..Len(pictures) : pictures[i].pic_type # last.arg

\* C18: a successful insert_item of a key not yet present appends the item
\* at the end; of a key already present it replaces the item at its
\* position; every other item keeps its position and value, and the
\* pictures are unchanged.
InsertionOrderPreserved ==
    [][ (last'.op = "insert_item" /\ last'.ret = TRUE) =>
          LET k == last'.arg.item_key
              at == {i \in 1..Len(items) : items[i].item_key = k}
          IN  /\ at = {} =>
                    /\ Len(items') = Len(items) + 1
                    /\ items'[Len(items')] = last'.arg
                    /\ \A i \in 1..Len(items) : items'[i] = items[i]
              /\ at # {} =>
                    /\ Len(items') = Len(items)
                    /\ \A i \in 1..Len(items) :
                          items'[i] = IF i \in at THEN last'.arg ELSE items[i]
              /\ pictures' = pictures ]_vars

\* C18 witness: the first of three stored items was replaced in place by the
\* last insert_item, on a Tag that holds a picture.
InsertionOrderWitness ==
    /\ last.op = "insert_item"
    /\ IsSome(last.trace)
    /\ Len(items) = 3
    /\ items[1] = last.arg
    /\ Unwrap(last.trace) # last.arg
    /\ Len(pictures) >= 1

\* C19: remove_picture(p) removes every stored picture equal to p and keeps
\* the others in their order; picture_count drops by the number of stored
\* pictures equal to p; the item list is unchanged.
RemovePictureByValue ==
    [][ last'.op = "remove_picture" =>
          /\ pictures' = SelectSeq(pictures, LAMBDA q : q # last'.arg)
          /\ \A i \in 1..Len(pictures') : pictures'[i] # last'.arg
          /\ picture_count(pictures') =
                picture_count(pictures)
                  - Cardinality({i \in 1..Len(pictures) : pictures[i] = last'.arg})
          /\ items' = items ]_vars

\* C19 witness: remove_picture dropped two equal pictures at once.
RemovePictureByValueWitness ==
    /\ last.op = "remove_picture"
    /\ last.trace = Some(2)

(***************************************************************************)
(* Properties of the Opus adapter's getters, setters and removers          *)
(***************************************************************************)
\* C13: setting or removing one of track number, total tracks, disc number
\* and total discs leaves the other three as they were, and each of the four
\* reads back the value last set for it.
TotalsIndependentOfNumbers ==
    [][ LET Same(ks) == \A k \in ks : GetU16(comments', k) = GetU16(comments, k)
        IN  /\ last'.op \in {"set_track_number", "remove_track_number"} =>
                  Same({"TOTALTRACKS", "DISCNUMBER", "TOTALDISCS"})
            /\ last'.op \in {"set_total_tracks", "remove_total_tracks"} =>
                  Same({"TRACKNUMBER", "DISCNUMBER", "TOTALDISCS"})
            /\ last'.op \in {"set_disc_number", "remove_disc_number"} =>
                  Same({"TRACKNUMBER", "TOTALTRACKS", "TOTALDISCS"})
            /\ last'.op \in {"set_total_discs", "remove_total_discs"} =>
                  Same({"TRACKNUMBER", "TOTALTRACKS", "DISCNUMBER"})
            /\ last'.op = "set_track_number" =>
                  track_number(comments') = Some(last'.arg)
            /\ last'.op = "set_total_tracks" =>
                  total_tracks(comments') = Some(last'.arg)
            /\ last'.op = "set_disc_number" =>
                  disc_number(comments') = Some(last'.arg)
            /\ last'.op = "set_total_discs" =>
                  total_discs(comments') = Some(last'.arg) ]_vars

\* C14: set_first(key, val) with a non-empty val replaces the value of an
\* entry that exists, so that get_first(key) then returns val; it leaves the
\* store unchanged when the key has no entry; entries under other keys are
\* unchanged in both cases.
SetFirstReplacesExisting ==
    [][ last'.op = "set_first" =>
          LET key == last'.arg[1]
              val == last'.arg[2]
          IN  /\ IsSome(comments[key]) => get_first(comments', key) = Some(val)
              /\ comments[key] = None => comments' = comments
              /\ \A k \in OpusKeys \ {key} : comments'[k] = comments[k] ]_vars

\* C15: year() is the integer parsed from the first 4 characters of DATE
\* when DATE is present, non-empty and that prefix parses; otherwise the
\* integer parsed from YEAR when YEAR is present, non-empty and parses;
\* otherwise None.
YearDerivation ==
    LET Text(k) == IF IsSome(comments[k]) /\ Unwrap(comments[k]) # <<>>
                   THEN comments[k] ELSE None
        date == IF IsSome(Text("DATE"))
                THEN ParseI32(Take(Unwrap(Text("DATE")), 4)) ELSE None
        yr   == IF IsSome(Text("YEAR"))
                THEN ParseI32(Unwrap(Text("YEAR"))) ELSE None
    IN  year(comments) = IF IsSome(date) THEN date
                         ELSE IF IsSome(yr) THEN yr
                         ELSE None

\* The digits of a decimal numeral, without its optional leading '+'.
NumeralDigits(s) == IF s # <<>> /\ Head(s) = "+" THEN Tail(s) ELSE s

\* A numeral without its leading zeros (one digit is kept).
RECURSIVE StripZeros(_)
StripZeros(s) ==
    IF Len(s) > 1 /\ Head(s) = "0" THEN StripZeros(Tail(s)) ELSE s

\* The number a string of digits denotes.
RECURSIVE DecimalValue(_)
DecimalValue(s) ==
    IF s = <<>> THEN 0
    ELSE 10 * DecimalValue(SubSeq(s, 1, Len(s) - 1)) + DigitVal(s[Len(s)])

\* s is a decimal numeral of a number in 0..65535.
IsDecimalU16(s) ==
    LET d == StripZeros(NumeralDigits(s))
    IN  /\ d # <<>>
        /\ \A i \in 1..Len(d) : IsDigit(d[i])
        /\ Len(d) <= 5
        /\ DecimalValue(d) <= 65535

\* C16: get_first(key), and so title, artist, album_title and album_artist,
\* is None exactly when the key has no entry or its value is the empty
\* string, and the stored string otherwise; the four number getters are None
\* when the entry is missing, empty or no decimal in 0..65535, and the number
\* otherwise; converting to AnyTag, which calls every getter, leaves the
\* comment store unchanged.
GettersReportAbsence ==
    /\ [](\A k \in OpusKeys :
            get_first(comments, k) =
                IF comments[k] = None \/ comments[k] = Some(<<>>) THEN None
                ELSE comments[k])
    /\ [](/\ title(comments) = get_first(comments, "TITLE")
          /\ artist(comments) = get_first(comments, "ARTIST")
          /\ album_title(comments) = get_first(comments, "ALBUM")
          /\ album_artist(comments) = get_first(comments, "ALBUMARTIST"))
    /\ [](LET Number(k) ==
                IF comments[k] = None \/ comments[k] = Some(<<>>) THEN None
                ELSE IF ~IsDecimalU16(Unwrap(comments[k])) THEN None
                ELSE Some(DecimalValue(StripZeros(NumeralDigits(Unwrap(comments[k])))))
          IN  /\ track_number(comments) = Number("TRACKNUMBER")
              /\ total_tracks(comments) = Number("TOTALTRACKS")
              /\ disc_number(comments) = Number("DISCNUMBER")
              /\ total_discs(comments) = Number("TOTALDISCS"))
    /\ [][ last'.op = "to_anytag" => comments' = comments ]_vars

\* C16 witness: an adapter whose TITLE entry is the empty string and whose
\* TRACKNUMBER entry is not a number in range has been converted to AnyTag,
\* which reported both absent.
GettersReportAbsenceWitness ==
    /\ last.op = "to_anytag"
    /\ comments["TITLE"] = Some(<<>>)
    /\ comments["TRACKNUMBER"] = Some(<<"7", "0", "0", "0", "0">>)
    /\ last.ret.title = None
    /\ last.ret.track_number = None

\* C17: after remove_F the getter of F is None and the entry under every
\* other native key is as before; remove_year deletes the YEAR and the DATE
\* entry; removing a field that has no entry leaves the store unchanged.
RemoversDeleteOnlyTheField ==
    [][ LET Gone(ks) ==
                /\ \A k \in ks : comments'[k] = None
                /\ \A k \in OpusKeys \ ks : comments'[k] = comments[k]
                /\ (\A k \in ks : comments[k] = None) => comments' = comments
        IN  /\ last'.op = "remove_title" =>
                  Gone({"TITLE"}) /\ title(comments') = None
            /\ last'.op = "remove_artist" =>
                  Gone({"ARTIST"}) /\ artist(comments') = None
            /\ last'.op = "remove_year" =>
                  Gone({"YEAR", "DATE"}) /\ year(comments') = None
            /\ last'.op = "remove_album_title" =>
                  Gone({"ALBUM"}) /\ album_title(comments') = None
            /\ last'.op = "remove_album_artist" =>
                  Gone({"ALBUMARTIST"}) /\ album_artist(comments') = None
            /\ last'.op = "remove_track_number" =>
                  Gone({"TRACKNUMBER"}) /\ track_number(comments') = None
            /\ last'.op = "remove_total_tracks" =>
                  Gone({"TOTALTRACKS"}) /\ total_tracks(comments') = None
            /\ last'.op = "remove_disc_number" =>
                  Gone({"DISCNUMBER"}) /\ disc_number(comments') = None
            /\ last'.op = "remove_total_discs" =>
                  Gone({"TOTALDISCS"}) /\ total_discs(comments') = None ]_vars

\* C17 witness: remove_year found a DATE entry and deleted it, and an entry
\* under another key is still there.
RemoversWitness ==
    /\ last.op = "remove_year"
    /\ IsSome(last.trace[2])
    /\ comments["DATE"] = None
    /\ \E k \in OpusKeys \ {"YEAR", "DATE"} : IsSome(comments[k])

\* C20: whenever year() returns y, y is the integer the stored DATE prefix or
\* YEAR string denotes (a value outside 0..65535 is reported absent, never
\* modulo 2^16), and From<AnyTag> hands set_year the AnyTag's year, not
\* another number.
YearNeverWrapped ==
    /\ IsSome(year(comments)) =>
          LET Text(k) == IF IsSome(comments[k]) /\ Unwrap(comments[k]) # <<>>
                         THEN comments[k] ELSE None
              date == IF IsSome(Text("DATE"))
                      THEN ParseI32(Take(Unwrap(Text("DATE")), 4)) ELSE None
              yr   == IF IsSome(Text("YEAR"))
                      THEN ParseI32(Unwrap(Text("YEAR"))) ELSE None
          IN  year(comments) \in {date, yr}
    /\ last.op = "from_anytag" =>
          \A i \in 1..Len(last.trace) :
              last.trace[i][1] = "set_year" =>
                  last.trace[i][2] = Unwrap(last.arg.year)

====
